---- MODULE Spec2Model ----
(***************************************************************************)
(* Model of the MAC grid of the melting simulation (Grid.cpp,              *)
(* Grid_Temperature.cpp, Particle.h): the per-step phases of Grid::update  *)
(* over the cell-centre and cell-face records and the particles.           *)
(*                                                                         *)
(* Lengths are counted in half cells from the grid corner                  *)
(* (gridEdgePosition): cell i spans [2i, 2i+2], its centre sits at 2i+1    *)
(* and its lower face at 2i.  Cubic B-spline weights are kept in units of  *)
(* 1/48 per axis (exact on this lattice), aggregated cell values are exact *)
(* rationals <<numerator, denominator>>.                                   *)
(***************************************************************************)
EXTENDS Integers, Sequences, FiniteSets, TLC

(* ------------------------------ bounds --------------------------------- *)

\* largest number of cells per side that is explored (the smallest is 3)
MaxNoCells == 4
\* number of particles of the emitter
NoParticles == 7
\* number of simulation steps that are explored
MaxSteps == 2
\* particle input values of the two groups of particles
MassA == 1
MassB == 2
TemperatureA == 30
TemperatureB == 60
\* emitter material inputs
HeatCapacitySolid == 2
HeatCapacityFluid == 4
HeatConductivitySolid == 3
HeatConductivityFluid == 5
\* surrounding temperatures handed to setSurroundingTemperatures
\* deformation state of the particles of the second group (the first group
\* is undeformed, with all three values 1)
DetDeformGradB == 2
DetDeformGradElasticB == 4
LameLambdaInverseB == 3
LatentHeat == 20
FreezingTemperature == 45
TemperatureStep == 5
TemperatureRange == 45
AmbientInput == 20
HeatSourceInput == 100

\* initial particle positions (half cells from the grid corner): inside the
\* bounding box, on its edge, and beyond the grid along z.  Particles sit at
\* the height and depth of cell centres and on the half-cell lattice along x.
InitPositions == { <<4, 3, 3>>, <<2, 5, 3>>, <<3, 3, 13>> }
\* particle velocities of the two groups, in half cells per step
VelocityA == << 1, 0, 0 >>
VelocityB == << 1, 2, 0 >>
\* numbers of particles in the first group
InitGroupSizes == { 0, 1, NoParticles - 1, NoParticles }
\* the deviatoric force of a face that carries mass (abstracted arithmetic)
DeviatoricForceValue == 2

(* ---------------------------- rationals -------------------------------- *)

Abs(x) == IF x < 0 THEN -x ELSE x

RECURSIVE GCD(_, _)
GCD(a, b) == IF b = 0 THEN a ELSE GCD(b, a % b)

\* the rational n/d in lowest terms with a positive denominator; a zero
\* denominator stands for the float infinity of a division by zero
Rat(n, d) ==
  IF d = 0 THEN <<1, 0>>
  ELSE LET g == GCD(Abs(n), Abs(d))
           s == IF d < 0 THEN -1 ELSE 1
       IN  << (s * n) \div g, (s * d) \div g >>

RZero == <<0, 1>>
RInt(k) == <<k, 1>>
\* sums and products cancel common factors first, which keeps the numbers small
RAdd(a, b) ==
  IF a[2] = 0 \/ b[2] = 0 THEN <<1, 0>>
  ELSE LET g == GCD(a[2], b[2])
       IN  Rat(a[1] * (b[2] \div g) + b[1] * (a[2] \div g), (a[2] \div g) * b[2])
RMul(a, b) ==
  LET g1 == GCD(Abs(a[1]), Abs(b[2]))
      g2 == GCD(Abs(b[1]), Abs(a[2]))
      d1 == IF g1 = 0 THEN 1 ELSE g1
      d2 == IF g2 = 0 THEN 1 ELSE g2
  IN  Rat((a[1] \div d1) * (b[1] \div d2), (a[2] \div d2) * (b[2] \div d1))
RDiv(a, b) ==
  IF b[1] < 0 THEN RMul(a, << -b[2], -b[1] >>) ELSE RMul(a, << b[2], b[1] >>)

\* 48^3: the denominator of a three-dimensional weight
WeightDenominator == 48 * 48 * 48

(* ------------------------------ state ---------------------------------- *)

VARIABLES
  pc,                      \* the phase Grid::update runs next, or "idle"
  stepTrace,               \* phases executed by the current/last update call
  stepCount,               \* number of completed simulation steps
  isFirstStep,             \* the _isFirstStep argument of the current call
  m_noCells,
  m_dt,
  m_ambientTemperature,
  m_heatSourceTemperature,
  m_cellCentres,
  m_cellFacesX,
  m_cellFacesY,
  m_cellFacesZ,
  m_Amatrix_deviatoric,    \* the non-zero entries of A_X, A_Y, A_Z
  m_Bvector_deviatoric,    \* the non-zero entries of b_X, b_Y, b_Z
  m_particles,
  lostDensityUpdates,      \* cells whose density additions were overwritten
                           \* in the last calcInitialParticleVolumes
  o_listParticleNo,        \* output vector of findNoParticlesInCells, << >>
                           \* while no caller holds one
  noAllocatedRecords,      \* InterpolationData objects allocated with new and
                           \* not deleted
  m_instance,              \* Grid::m_instance: nullptr or the grid it points
                           \* to; grids are numbered as they are constructed
  liveGrids,               \* grids constructed and not destroyed
  noGridsConstructed,      \* calls of the constructor so far
  lastCall,                \* last call of createGrid or getGrid and its result
  m_origin                 \* centre of cell (0,0,0), set by the constructor

vars == << pc, stepTrace, stepCount, isFirstStep, m_noCells, m_dt,
           m_ambientTemperature, m_heatSourceTemperature,
           m_cellCentres, m_cellFacesX, m_cellFacesY, m_cellFacesZ,
           m_Amatrix_deviatoric, m_Bvector_deviatoric, m_particles,
           lostDensityUpdates, o_listParticleNo, noAllocatedRecords,
           m_instance, liveGrids, noGridsConstructed, lastCall, m_origin >>

nullptr == 0

singletonVars == << m_instance, liveGrids, noGridsConstructed, lastCall,
                    m_origin >>

gridVars == << m_cellCentres, m_cellFacesX, m_cellFacesY, m_cellFacesZ,
               m_Amatrix_deviatoric, m_Bvector_deviatoric >>

Particles == 1 .. NoParticles

m_totNoCells == m_noCells * m_noCells * m_noCells
CellIndices == 0 .. (m_totNoCells - 1)

\* threshold for the number of particles in a non-empty cell
m_noParticlesThreshold == 6
\* explicit integration is compiled in
m_isImplictIntegration == FALSE

\* the systems of the three axes after setZero: no non-zero entry
ZeroSystem == [ axis \in { "X", "Y", "Z" } |-> {} ]

(* ---------------------------- MathFunctions ---------------------------- *)

\* flat index of cell (i,j,k)
getVectorIndex(i, j, k, n) == i + n * j + n * n * k

\* integer cell of a position measured from the grid corner
getParticleGridCell(pos) == << pos[1] \div 2, pos[2] \div 2, pos[3] \div 2 >>

\* cubic B-spline N(d/2) in units of 1/48, d in half cells
calcCubicBSpline(d) ==
  LET a == Abs(d)
  IN  IF a < 2 THEN 3 * a * a * a - 12 * a * a + 32
      ELSE IF a < 4 THEN (4 - a) * (4 - a) * (4 - a)
      ELSE 0

(* ------------------------------ Grid::Grid ----------------------------- *)

NewCellCentre(i, j, k) ==
  [ m_iIndex |-> i, m_jIndex |-> j, m_kIndex |-> k,
    m_interpolationData |-> << >>,
    m_noParticlesContributing |-> 0,
    m_mass |-> RZero,
    m_detDeformationGrad |-> RZero,
    m_detDeformationGradElastic |-> RZero,
    m_detDeformationGradPlastic |-> RZero,
    m_heatCapacity |-> RZero,
    m_temperature |-> RZero,
    m_previousTemperature |-> RZero,
    m_lameLambdaInverse |-> RZero,
    m_state |-> "Colliding" ]

NewCellFace(i, j, k) ==
  [ m_iIndex |-> i, m_jIndex |-> j, m_kIndex |-> k,
    m_interpolationData |-> << >>,
    m_noParticlesContributing |-> 0,
    m_mass |-> RZero,
    m_velocity |-> RZero,
    m_heatConductivity |-> RZero,
    m_deviatoricForce |-> RZero,
    m_state |-> "Interior" ]

\* variant: the i loop outermost, the k loop innermost
CellFacesOfGrid_KInnermost(n) ==
  [ p \in 0 .. (n * n * n - 1) |->
      NewCellFace(p \div (n * n), (p \div n) % n, p % n) ]

\* the record pushed at flat position p by the k, j, i loops of the constructor
CellCentresOfGrid(n) ==
  [ p \in 0 .. (n * n * n - 1) |->
      NewCellCentre(p % n, (p \div n) % n, p \div (n * n)) ]

CellFacesOfGrid(n) ==
  [ p \in 0 .. (n * n * n - 1) |->
      NewCellFace(p % n, (p \div n) % n, p \div (n * n)) ]

\* side of the bounding box handed to the constructor
BoundingBoxSize == 2

\* world position of the lower back corner of the bounding box, passed to the
\* constructor
originEdge == << 0, -1, 3 >>

\* the grid origin the constructor computes: the centre of cell (0,0,0), half
\* a cell below the corner of the bounding box on every axis
staggeredGridPosition(edge, n) ==
  [ axis \in 1 .. 3 |->
      RAdd(RInt(edge[axis]), RMul(Rat(-1, 2), Rat(BoundingBoxSize, n - 2))) ]

(* ------------------------------ particles ------------------------------ *)

NewParticle(pos, vel, mass, temperature, phase) ==
  [ m_position |-> pos,
    m_velocity |-> vel,
    m_mass |-> mass,
    m_initialDensity |-> RZero,
    m_initialVolume |-> RZero,
    m_detDeformGrad |-> 1,
    m_detDeformGradElastic |-> 1,
    m_lameLambdaInverse |-> 1,
    m_temperature |-> temperature,
    m_transitionHeat |-> IF phase = "Solid" THEN 0 ELSE LatentHeat,
    m_phase |-> phase ]

\* a particle of the second group: one that earlier steps have deformed
DeformedParticle(particle) ==
  [ particle EXCEPT !.m_detDeformGrad = DetDeformGradB,
                    !.m_detDeformGradElastic = DetDeformGradElasticB,
                    !.m_lameLambdaInverse = LameLambdaInverseB ]

(* -------------------------------- Init --------------------------------- *)

Init ==
  /\ pc = "idle"
  /\ stepTrace = << >>
  /\ stepCount = 0
  /\ isFirstStep = FALSE
  /\ m_noCells \in 3 .. MaxNoCells
  /\ m_dt = 0
  /\ m_ambientTemperature = 0
  /\ m_heatSourceTemperature = 0
  /\ m_cellCentres = CellCentresOfGrid(m_noCells)
  /\ m_cellFacesX = CellFacesOfGrid(m_noCells)
  /\ m_cellFacesY = CellFacesOfGrid(m_noCells)
  /\ m_cellFacesZ = CellFacesOfGrid(m_noCells)
  /\ m_Amatrix_deviatoric = ZeroSystem
  /\ m_Bvector_deviatoric = ZeroSystem
  /\ lostDensityUpdates = {}
  /\ o_listParticleNo = << >>
  /\ noAllocatedRecords = 0
  /\ m_instance = 1
  /\ liveGrids = {1}
  /\ noGridsConstructed = 1
  /\ lastCall = [ name |-> "createGrid", result |-> 1, thrown |-> "none",
                  originEdge |-> originEdge, noCells |-> m_noCells ]
  /\ m_origin = staggeredGridPosition(originEdge, m_noCells)
  /\ \E posA \in InitPositions, posB \in InitPositions, noA \in InitGroupSizes :
       m_particles =
         [ p \in Particles |->
             IF p <= noA
             THEN NewParticle(posA, VelocityA, MassA, TemperatureA, "Solid")
             ELSE DeformedParticle(
                    NewParticle(posB, VelocityB, MassB, TemperatureB, "Liquid")) ]

(* ----------------------------- Grid::update ---------------------------- *)

\* variant: the pressure projection runs before the boundary velocities
NextPhase_ProjectionFirst(phase, first) ==
  CASE phase = "clearCellData" -> "findParticleContributionToCell"
    [] phase = "findParticleContributionToCell" -> "transferParticleData"
    [] phase = "transferParticleData" -> "classifyCells"
    [] phase = "classifyCells" ->
         IF first THEN "calcInitialParticleVolumes" ELSE "calcDeviatoricVelocity"
    [] phase = "calcInitialParticleVolumes" -> "calcDeviatoricVelocity"
    [] phase = "calcDeviatoricVelocity" -> "projectVelocity"
    [] phase = "projectVelocity" -> "setBoundaryVelocity"
    [] phase = "setBoundaryVelocity" -> "calcTemperature"
    [] phase = "calcTemperature" -> "updateParticleFromGrid"
    [] phase = "updateParticleFromGrid" -> "return"

\* variant: the volumes are initialised right after the transfer (the block
\* that Grid::update keeps commented out)
NextPhase_VolumesAfterTransfer(phase, first) ==
  CASE phase = "clearCellData" -> "findParticleContributionToCell"
    [] phase = "findParticleContributionToCell" -> "transferParticleData"
    [] phase = "transferParticleData" ->
         IF first THEN "calcInitialParticleVolumes" ELSE "classifyCells"
    [] phase = "calcInitialParticleVolumes" -> "classifyCells"
    [] phase = "classifyCells" -> "calcDeviatoricVelocity"
    [] phase = "calcDeviatoricVelocity" -> "setBoundaryVelocity"
    [] phase = "setBoundaryVelocity" -> "projectVelocity"
    [] phase = "projectVelocity" -> "calcTemperature"
    [] phase = "calcTemperature" -> "updateParticleFromGrid"
    [] phase = "updateParticleFromGrid" -> "return"

\* variant: the first-step flag is not tested
NextPhase_VolumesEveryStep(phase, first) ==
  CASE phase = "clearCellData" -> "findParticleContributionToCell"
    [] phase = "findParticleContributionToCell" -> "transferParticleData"
    [] phase = "transferParticleData" -> "classifyCells"
    [] phase = "classifyCells" -> "calcInitialParticleVolumes"
    [] phase = "calcInitialParticleVolumes" -> "calcDeviatoricVelocity"
    [] phase = "calcDeviatoricVelocity" -> "setBoundaryVelocity"
    [] phase = "setBoundaryVelocity" -> "projectVelocity"
    [] phase = "projectVelocity" -> "calcTemperature"
    [] phase = "calcTemperature" -> "updateParticleFromGrid"
    [] phase = "updateParticleFromGrid" -> "return"

\* the call sequence of Grid::update: the phase that follows `phase`
NextPhase(phase, first) ==
  CASE phase = "clearCellData" -> "findParticleContributionToCell"
    [] phase = "findParticleContributionToCell" -> "transferParticleData"
    [] phase = "transferParticleData" -> "classifyCells"
    [] phase = "classifyCells" ->
         IF first THEN "calcInitialParticleVolumes" ELSE "calcDeviatoricVelocity"
    [] phase = "calcInitialParticleVolumes" -> "calcDeviatoricVelocity"
    [] phase = "calcDeviatoricVelocity" -> "setBoundaryVelocity"
    [] phase = "setBoundaryVelocity" -> "projectVelocity"
    [] phase = "projectVelocity" -> "calcTemperature"
    [] phase = "calcTemperature" -> "updateParticleFromGrid"
    [] phase = "updateParticleFromGrid" -> "return"

\* phase `phase` of the running update call has executed
Advance(phase) ==
  /\ pc = phase
  /\ pc' = NextPhase(phase, isFirstStep)
  /\ stepTrace' = Append(stepTrace, phase)
  /\ IF phase = "calcInitialParticleVolumes"
     THEN TRUE
     ELSE UNCHANGED lostDensityUpdates
  /\ IF phase = "findParticleContributionToCell"
     THEN TRUE
     ELSE UNCHANGED noAllocatedRecords
  /\ UNCHANGED singletonVars
  /\ UNCHANGED << stepCount, isFirstStep, m_noCells, m_dt,
                  m_ambientTemperature, m_heatSourceTemperature,
                  o_listParticleNo >>

\* the controller hands the surrounding temperatures to the grid
setSurroundingTemperatures ==
  /\ pc = "idle"
  /\ stepCount = 0
  /\ m_ambientTemperature = 0 /\ m_heatSourceTemperature = 0
  /\ m_ambientTemperature' = AmbientInput
  /\ m_heatSourceTemperature' = HeatSourceInput
  /\ UNCHANGED << pc, stepTrace, stepCount, isFirstStep, m_noCells, m_dt,
                  gridVars, m_particles, lostDensityUpdates, o_listParticleNo,
                  noAllocatedRecords, singletonVars >>

\* entry of Grid::update: the controller flags the first step only
update ==
  /\ pc = "idle"
  /\ stepCount < MaxSteps
  /\ m_ambientTemperature # 0
  /\ m_dt' = 1
  /\ isFirstStep' = (stepCount = 0)
  /\ pc' = "clearCellData"
  /\ stepTrace' = << >>
  /\ UNCHANGED << stepCount, m_noCells, m_ambientTemperature,
                  m_heatSourceTemperature, gridVars, m_particles,
                  lostDensityUpdates, o_listParticleNo, noAllocatedRecords,
                  singletonVars >>

(* --------------------------- Grid::clearCellData ----------------------- *)

ClearedCentre(c) ==
  [ c EXCEPT !.m_interpolationData = << >>,
             !.m_noParticlesContributing = 0,
             !.m_mass = RZero,
             !.m_detDeformationGrad = RZero,
             !.m_detDeformationGradElastic = RZero,
             !.m_detDeformationGradPlastic = RZero,
             !.m_heatCapacity = RZero,
             !.m_temperature = RZero,
             !.m_lameLambdaInverse = RZero,
             !.m_state = "Colliding" ]

\* variant: the deviatoric force of a face is not reset
ClearedFace_KeepsForce(f) ==
  [ f EXCEPT !.m_interpolationData = << >>,
             !.m_noParticlesContributing = 0,
             !.m_mass = RZero,
             !.m_velocity = RZero,
             !.m_heatConductivity = RZero,
             !.m_state = "Interior" ]

ClearedFace(f) ==
  [ f EXCEPT !.m_interpolationData = << >>,
             !.m_noParticlesContributing = 0,
             !.m_mass = RZero,
             !.m_deviatoricForce = RZero,
             !.m_velocity = RZero,
             !.m_heatConductivity = RZero,
             !.m_state = "Interior" ]

clearCellData ==
  /\ Advance("clearCellData")
  /\ m_Amatrix_deviatoric' = ZeroSystem
  /\ m_Bvector_deviatoric' = ZeroSystem
  /\ m_cellCentres' = [ c \in CellIndices |-> ClearedCentre(m_cellCentres[c]) ]
  /\ m_cellFacesX' = [ c \in CellIndices |-> ClearedFace(m_cellFacesX[c]) ]
  /\ m_cellFacesY' = [ c \in CellIndices |-> ClearedFace(m_cellFacesY[c]) ]
  /\ m_cellFacesZ' = [ c \in CellIndices |-> ClearedFace(m_cellFacesZ[c]) ]
  /\ UNCHANGED m_particles

(* ------------------ Grid::findParticleContributionToCell --------------- *)

\* the four lists of a cell: the centre and the lower X, Y and Z faces
ListKinds == { "Centre", "FaceX", "FaceY", "FaceZ" }

\* offset, in half cells, of the list's position from the lower cell corner
ListOffset(kind) ==
  CASE kind = "Centre" -> << 1, 1, 1 >>
    [] kind = "FaceX" -> << 0, 1, 1 >>
    [] kind = "FaceY" -> << 1, 0, 1 >>
    [] kind = "FaceZ" -> << 1, 1, 0 >>

\* N = Nx*Ny*Nz of calcInterpolationWeights, in units of 1/48^3
InterpolationWeight(kind, pos, i, j, k) ==
  LET o == ListOffset(kind)
  IN  calcCubicBSpline(pos[1] - (2 * i + o[1]))
      * calcCubicBSpline(pos[2] - (2 * j + o[2]))
      * calcCubicBSpline(pos[3] - (2 * k + o[3]))

\* variant: the neighbourhood starts one cell late
IsCandidateCell_NarrowLower(pos, i, j, k, n) ==
  LET particleIndex == getParticleGridCell(pos)
  IN  /\ particleIndex[1] - 1 <= i /\ i < particleIndex[1] + 4
      /\ particleIndex[2] - 1 <= j /\ j < particleIndex[2] + 4
      /\ particleIndex[3] - 1 <= k /\ k < particleIndex[3] + 4
      /\ i >= 0 /\ i <= n - 1
      /\ j >= 0 /\ j <= n - 1
      /\ k >= 0 /\ k <= n - 1

\* cell (i,j,k) is visited by the loops over the neighbourhood of the particle
\* at pos and passes the check against the grid
IsCandidateCell(pos, i, j, k, n) ==
  LET particleIndex == getParticleGridCell(pos)
  IN  /\ particleIndex[1] - 2 <= i /\ i < particleIndex[1] + 4
      /\ particleIndex[2] - 2 <= j /\ j < particleIndex[2] + 4
      /\ particleIndex[3] - 2 <= k /\ k < particleIndex[3] + 4
      /\ i >= 0 /\ i <= n - 1
      /\ j >= 0 /\ j <= n - 1
      /\ k >= 0 /\ k <= n - 1

\* the list of a cell after particles 1..p have been handled in turn
RECURSIVE ContributionsUpTo(_, _, _, _, _, _)
ContributionsUpTo(list, kind, i, j, k, p) ==
  IF p = 0 THEN list
  ELSE LET before == ContributionsUpTo(list, kind, i, j, k, p - 1)
           pos == m_particles[p].m_position
           N == InterpolationWeight(kind, pos, i, j, k)
       IN  IF IsCandidateCell(pos, i, j, k, m_noCells) /\ N # 0
           THEN Append(before, [ m_particle |-> p, m_cubicBSpline |-> N ])
           ELSE before

WithContributions(cell, kind) ==
  [ cell EXCEPT !.m_interpolationData =
      ContributionsUpTo(@, kind, cell.m_iIndex, cell.m_jIndex, cell.m_kIndex,
                        NoParticles) ]

\* number of records the four lists of cells lo..hi refer to; the range is
\* halved to keep the evaluation shallow
RECURSIVE NoRecordsInRange(_, _, _, _, _, _)
NoRecordsInRange(lo, hi, centres, facesX, facesY, facesZ) ==
  IF lo > hi THEN 0
  ELSE IF lo = hi
  THEN Len(centres[lo].m_interpolationData) + Len(facesX[lo].m_interpolationData)
         + Len(facesY[lo].m_interpolationData)
         + Len(facesZ[lo].m_interpolationData)
  ELSE LET mid == (lo + hi) \div 2
       IN  NoRecordsInRange(lo, mid, centres, facesX, facesY, facesZ)
             + NoRecordsInRange(mid + 1, hi, centres, facesX, facesY, facesZ)

\* every record pushed on a list is a new InterpolationData
findParticleContributionToCell ==
  /\ Advance("findParticleContributionToCell")
  /\ m_cellCentres' =
       [ c \in CellIndices |-> WithContributions(m_cellCentres[c], "Centre") ]
  /\ m_cellFacesX' =
       [ c \in CellIndices |-> WithContributions(m_cellFacesX[c], "FaceX") ]
  /\ m_cellFacesY' =
       [ c \in CellIndices |-> WithContributions(m_cellFacesY[c], "FaceY") ]
  /\ m_cellFacesZ' =
       [ c \in CellIndices |-> WithContributions(m_cellFacesZ[c], "FaceZ") ]
  /\ noAllocatedRecords' =
       noAllocatedRecords
         + NoRecordsInRange(0, m_totNoCells - 1, m_cellCentres', m_cellFacesX',
                            m_cellFacesY', m_cellFacesZ')
         - NoRecordsInRange(0, m_totNoCells - 1, m_cellCentres, m_cellFacesX,
                            m_cellFacesY, m_cellFacesZ)
  /\ UNCHANGED << m_Amatrix_deviatoric, m_Bvector_deviatoric, m_particles >>

(* ----------------------- Grid::transferParticleData -------------------- *)

RECURSIVE SeqSum(_)
SeqSum(s) == IF s = << >> THEN 0 ELSE Head(s) + SeqSum(Tail(s))

\* sum over the records of a list of weight*mass*value(particle), the value
\* picked by name, in units of 1/48^3
ParticleValue(p, what) ==
  CASE what = "one" -> 1
    [] what = "velocityX" -> m_particles[p].m_velocity[1]
    [] what = "velocityY" -> m_particles[p].m_velocity[2]
    [] what = "velocityZ" -> m_particles[p].m_velocity[3]
    [] what = "heatConductivity" ->
         IF m_particles[p].m_phase = "Solid"
         THEN HeatConductivitySolid ELSE HeatConductivityFluid
    [] what = "heatCapacity" ->
         IF m_particles[p].m_phase = "Solid"
         THEN HeatCapacitySolid ELSE HeatCapacityFluid
    [] what = "detDeformGrad" -> m_particles[p].m_detDeformGrad
    [] what = "detDeformGradElast" -> m_particles[p].m_detDeformGradElastic
    [] what = "temperature" -> m_particles[p].m_temperature
    [] what = "lameLambdaInverse" -> m_particles[p].m_lameLambdaInverse

WeightedSum(list, what) ==
  Rat(SeqSum([ r \in DOMAIN list |->
                 list[r].m_cubicBSpline * m_particles[list[r].m_particle].m_mass
                 * ParticleValue(list[r].m_particle, what) ]),
      WeightDenominator)

\* variant: the heat conductivity is left as the accumulated sum
TransferredFace_ConductivityNotDivided(f, axis) ==
  LET list == f.m_interpolationData
      mass == RAdd(f.m_mass, WeightedSum(list, "one"))
  IN  IF Len(list) # 0
      THEN [ f EXCEPT
               !.m_mass = mass,
               !.m_velocity = RDiv(RAdd(@, WeightedSum(list, axis)), mass),
               !.m_heatConductivity =
                  RAdd(@, WeightedSum(list, "heatConductivity")) ]
      ELSE f

\* variant: the velocity is left as the accumulated momentum
TransferredFace_VelocityNotDivided(f, axis) ==
  LET list == f.m_interpolationData
      mass == RAdd(f.m_mass, WeightedSum(list, "one"))
  IN  IF Len(list) # 0
      THEN [ f EXCEPT
               !.m_mass = mass,
               !.m_velocity = RAdd(@, WeightedSum(list, axis)),
               !.m_heatConductivity =
                  RDiv(RAdd(@, WeightedSum(list, "heatConductivity")), mass) ]
      ELSE f

\* a face record after its part of the loop body; axis names the velocity
\* component along the face normal
TransferredFace(f, axis) ==
  LET list == f.m_interpolationData
      mass == RAdd(f.m_mass, WeightedSum(list, "one"))
  IN  IF Len(list) # 0
      THEN [ f EXCEPT
               !.m_mass = mass,
               !.m_velocity = RDiv(RAdd(@, WeightedSum(list, axis)), mass),
               !.m_heatConductivity =
                  RDiv(RAdd(@, WeightedSum(list, "heatConductivity")), mass) ]
      ELSE f

\* variant: det F_P is the inverse quotient
TransferredCentre_PlasticInverted(c) ==
  LET list == c.m_interpolationData
      mass == RAdd(c.m_mass, WeightedSum(list, "one"))
      detF == RDiv(RAdd(c.m_detDeformationGrad,
                        WeightedSum(list, "detDeformGrad")), mass)
      detFE == RDiv(RAdd(c.m_detDeformationGradElastic,
                         WeightedSum(list, "detDeformGradElast")), mass)
  IN  IF Len(list) # 0
      THEN [ c EXCEPT
               !.m_mass = mass,
               !.m_detDeformationGrad = detF,
               !.m_detDeformationGradElastic = detFE,
               !.m_heatCapacity =
                  RDiv(RAdd(@, WeightedSum(list, "heatCapacity")), mass),
               !.m_temperature =
                  RDiv(RAdd(@, WeightedSum(list, "temperature")), mass),
               !.m_lameLambdaInverse =
                  RDiv(RAdd(@, WeightedSum(list, "lameLambdaInverse")), mass),
               !.m_detDeformationGradPlastic = RDiv(detFE, detF) ]
      ELSE c

TransferredCentre(c) ==
  LET list == c.m_interpolationData
      mass == RAdd(c.m_mass, WeightedSum(list, "one"))
      detF == RDiv(RAdd(c.m_detDeformationGrad,
                        WeightedSum(list, "detDeformGrad")), mass)
      detFE == RDiv(RAdd(c.m_detDeformationGradElastic,
                         WeightedSum(list, "detDeformGradElast")), mass)
  IN  IF Len(list) # 0
      THEN [ c EXCEPT
               !.m_mass = mass,
               !.m_detDeformationGrad = detF,
               !.m_detDeformationGradElastic = detFE,
               !.m_heatCapacity =
                  RDiv(RAdd(@, WeightedSum(list, "heatCapacity")), mass),
               !.m_temperature =
                  RDiv(RAdd(@, WeightedSum(list, "temperature")), mass),
               !.m_lameLambdaInverse =
                  RDiv(RAdd(@, WeightedSum(list, "lameLambdaInverse")), mass),
               !.m_detDeformationGradPlastic = RDiv(detF, detFE) ]
      ELSE c

transferParticleData ==
  /\ Advance("transferParticleData")
  /\ m_cellFacesX' =
       [ c \in CellIndices |-> TransferredFace(m_cellFacesX[c], "velocityX") ]
  /\ m_cellFacesY' =
       [ c \in CellIndices |-> TransferredFace(m_cellFacesY[c], "velocityY") ]
  /\ m_cellFacesZ' =
       [ c \in CellIndices |-> TransferredFace(m_cellFacesZ[c], "velocityZ") ]
  /\ m_cellCentres' = [ c \in CellIndices |-> TransferredCentre(m_cellCentres[c]) ]
  /\ UNCHANGED << m_Amatrix_deviatoric, m_Bvector_deviatoric, m_particles >>

(* -------------------------- Grid::classifyCells ------------------------ *)

\* variant: only the lower walls are tested
IsOuterCell_LowerOnly(i, j, k, n) ==
  i = 0 \/ j = 0 \/ k = 0

IsOuterCell(i, j, k, n) ==
  i = 0 \/ i = n - 1 \/ j = 0 \/ j = n - 1 \/ k = 0 \/ k = n - 1

\* variant: the faces adjacent to the outer cells are not set
FaceStateAfterCollisionCheck_OuterOnly(f, axisIndex) ==
  IF IsOuterCell(f.m_iIndex, f.m_jIndex, f.m_kIndex, m_noCells)
  THEN "Colliding"
  ELSE f.m_state

\* first loop: the state of a face of cell (i,j,k); axisIndex is the index of
\* the cell along the face normal
FaceStateAfterCollisionCheck(f, axisIndex) ==
  IF IsOuterCell(f.m_iIndex, f.m_jIndex, f.m_kIndex, m_noCells) \/ axisIndex = 1
  THEN "Colliding"
  ELSE f.m_state

FacesXAfterCollisionCheck ==
  [ c \in CellIndices |->
      [ m_cellFacesX[c] EXCEPT
          !.m_state = FaceStateAfterCollisionCheck(m_cellFacesX[c],
                                                   m_cellFacesX[c].m_iIndex) ] ]
FacesYAfterCollisionCheck ==
  [ c \in CellIndices |->
      [ m_cellFacesY[c] EXCEPT
          !.m_state = FaceStateAfterCollisionCheck(m_cellFacesY[c],
                                                   m_cellFacesY[c].m_jIndex) ] ]
FacesZAfterCollisionCheck ==
  [ c \in CellIndices |->
      [ m_cellFacesZ[c] EXCEPT
          !.m_state = FaceStateAfterCollisionCheck(m_cellFacesZ[c],
                                                   m_cellFacesZ[c].m_kIndex) ] ]

\* variant: only an Interior face counts as not Colliding
IsNotColliding_InteriorOnly(state) == state = "Interior"

\* the test the second loop makes on the state of a face
IsNotColliding(state) == state # "Colliding"

\* second loop: the first of the six faces of cell c found not Colliding, in
\* the order lower X, upper X, lower Y, upper Y, lower Z, upper Z; "none" when
\* the iteration falls through to the temperatures of colliding cells.  The
\* upper faces belong to the neighbouring cells and are read as the face lists
\* stand when the iteration runs.
FirstNonCollidingFace(c, facesX, facesY, facesZ) ==
  LET i == m_cellCentres[c].m_iIndex
      j == m_cellCentres[c].m_jIndex
      k == m_cellCentres[c].m_kIndex
      n == m_noCells
  IN  IF IsNotColliding(facesX[c].m_state) THEN "lowerX"
      ELSE IF i < n - 1
              /\ IsNotColliding(facesX[getVectorIndex(i + 1, j, k, n)].m_state)
      THEN "upperX"
      ELSE IF IsNotColliding(facesY[c].m_state) THEN "lowerY"
      ELSE IF j < n - 1
              /\ IsNotColliding(facesY[getVectorIndex(i, j + 1, k, n)].m_state)
      THEN "upperY"
      ELSE IF IsNotColliding(facesZ[c].m_state) THEN "lowerZ"
      ELSE IF k < n - 1
              /\ IsNotColliding(facesZ[getVectorIndex(i, j, k + 1, n)].m_state)
      THEN "upperZ"
      ELSE "none"

\* number of records of the upper face of cell c along an axis, 0 for the
\* outermost cells
NoParticlesInUpperFace(faces, index, neighbour) ==
  IF index # m_noCells - 1 THEN Len(faces[neighbour].m_interpolationData) ELSE 0

\* variant: the copy of the test in the lower X branch leaves out the upper X
\* face
HasEnoughParticles_LowerXBranchDiffers(c, branch) ==
  LET i == m_cellCentres[c].m_iIndex
      j == m_cellCentres[c].m_jIndex
      k == m_cellCentres[c].m_kIndex
      n == m_noCells
  IN  /\ Len(m_cellCentres[c].m_interpolationData) > m_noParticlesThreshold
      /\ \/ branch = "lowerX"
         \/ NoParticlesInUpperFace(m_cellFacesX, i, getVectorIndex(i + 1, j, k, n))
              > m_noParticlesThreshold
      /\ Len(m_cellFacesX[c].m_interpolationData) > m_noParticlesThreshold
      /\ NoParticlesInUpperFace(m_cellFacesY, j, getVectorIndex(i, j + 1, k, n))
           > m_noParticlesThreshold
      /\ Len(m_cellFacesY[c].m_interpolationData) > m_noParticlesThreshold
      /\ NoParticlesInUpperFace(m_cellFacesZ, k, getVectorIndex(i, j, k + 1, n))
           > m_noParticlesThreshold
      /\ Len(m_cellFacesZ[c].m_interpolationData) > m_noParticlesThreshold

\* the test for an interior cell; the code repeats it in each of the six
\* branches, branch names the copy
HasEnoughParticles(c, branch) ==
  LET i == m_cellCentres[c].m_iIndex
      j == m_cellCentres[c].m_jIndex
      k == m_cellCentres[c].m_kIndex
      n == m_noCells
  IN  /\ Len(m_cellCentres[c].m_interpolationData) > m_noParticlesThreshold
      /\ NoParticlesInUpperFace(m_cellFacesX, i, getVectorIndex(i + 1, j, k, n))
           > m_noParticlesThreshold
      /\ Len(m_cellFacesX[c].m_interpolationData) > m_noParticlesThreshold
      /\ NoParticlesInUpperFace(m_cellFacesY, j, getVectorIndex(i, j + 1, k, n))
           > m_noParticlesThreshold
      /\ Len(m_cellFacesY[c].m_interpolationData) > m_noParticlesThreshold
      /\ NoParticlesInUpperFace(m_cellFacesZ, k, getVectorIndex(i, j, k + 1, n))
           > m_noParticlesThreshold
      /\ Len(m_cellFacesZ[c].m_interpolationData) > m_noParticlesThreshold

\* variant: the heat source is the k = 0 plane
CollidingCellTemperature_KPlane(cell) ==
  IF cell.m_kIndex = 0 THEN RInt(m_heatSourceTemperature)
  ELSE IF Len(cell.m_interpolationData) = 0 THEN RInt(m_ambientTemperature)
  ELSE cell.m_temperature

\* variant: every colliding cell off the heat source is set to ambient
CollidingCellTemperature_AlwaysAmbient(cell) ==
  IF cell.m_jIndex = 0 THEN RInt(m_heatSourceTemperature)
  ELSE RInt(m_ambientTemperature)

\* temperature of a cell centre whose six faces are all Colliding
CollidingCellTemperature(cell) ==
  IF cell.m_jIndex = 0 THEN RInt(m_heatSourceTemperature)
  ELSE IF Len(cell.m_interpolationData) = 0 THEN RInt(m_ambientTemperature)
  ELSE cell.m_temperature

\* the cell centre after the iteration of cell c that took the given branch
ClassifiedCentre(c, branch) ==
  LET cell == m_cellCentres[c]
  IN  IF branch # "none"
      THEN IF HasEnoughParticles(c, branch)
           THEN [ cell EXCEPT !.m_state = "Interior" ]
           ELSE [ cell EXCEPT !.m_state = "Empty",
                              !.m_temperature = RInt(m_ambientTemperature) ]
      ELSE [ cell EXCEPT !.m_temperature = CollidingCellTemperature(cell) ]

\* a lower face is set Empty only in the branch that found it not Colliding
ClassifiedFace(face, branch, lowerBranch) ==
  IF /\ branch = lowerBranch
     /\ Len(face.m_interpolationData) <= m_noParticlesThreshold
  THEN [ face EXCEPT !.m_state = "Empty" ]
  ELSE face

\* one iteration of the second loop, on the lists as they stand
ClassifiedCell(c, g) ==
  LET branch == FirstNonCollidingFace(c, g.facesX, g.facesY, g.facesZ)
  IN  [ centres |-> [ g.centres EXCEPT ![c] = ClassifiedCentre(c, branch) ],
        facesX |-> [ g.facesX EXCEPT
                       ![c] = ClassifiedFace(g.facesX[c], branch, "lowerX") ],
        facesY |-> [ g.facesY EXCEPT
                       ![c] = ClassifiedFace(g.facesY[c], branch, "lowerY") ],
        facesZ |-> [ g.facesZ EXCEPT
                       ![c] = ClassifiedFace(g.facesZ[c], branch, "lowerZ") ] ]

\* The iterations of the second loop run in parallel and an iteration reads
\* the state of the lower faces of its upper neighbours, which the iterations
\* of those neighbours write.  Explored here: every iteration runs before its
\* upper neighbours (ascending), or after them (descending).
IterationOrders == { "ascending", "descending" }

\* the iterations of cells lo..hi in the given order; the range is halved and
\* the half that runs first is evaluated before the other one starts, to keep
\* the evaluation shallow
RECURSIVE ClassifiedInRange(_, _, _, _)
ClassifiedInRange(lo, hi, g, order) ==
  IF lo > hi THEN g
  ELSE IF lo = hi THEN ClassifiedCell(lo, g)
  ELSE LET mid == (lo + hi) \div 2
       IN  IF order = "ascending"
           THEN CHOOSE r \in { ClassifiedInRange(mid + 1, hi, first, order) :
                                 first \in { ClassifiedInRange(lo, mid, g, order) } } :
                  TRUE
           ELSE CHOOSE r \in { ClassifiedInRange(lo, mid, first, order) :
                                 first \in { ClassifiedInRange(mid + 1, hi, g, order) } } :
                  TRUE

\* both loops, the second in the given order
ClassifiedInOrder(order) ==
  ClassifiedInRange(0, m_totNoCells - 1,
                    [ centres |-> m_cellCentres,
                      facesX |-> FacesXAfterCollisionCheck,
                      facesY |-> FacesYAfterCollisionCheck,
                      facesZ |-> FacesZAfterCollisionCheck ],
                    order)

classifyCells ==
  /\ Advance("classifyCells")
  /\ \E order \in IterationOrders :
       \E g \in { ClassifiedInOrder(order) } :
          /\ m_cellCentres' = g.centres
          /\ m_cellFacesX' = g.facesX
          /\ m_cellFacesY' = g.facesY
          /\ m_cellFacesZ' = g.facesZ
  /\ UNCHANGED << m_Amatrix_deviatoric, m_Bvector_deviatoric, m_particles >>

(* -------------------- Grid::calcInitialParticleVolumes ----------------- *)

m_cellSize == Rat(BoundingBoxSize, m_noCells - 2)

m_gridSize == RAdd(RInt(BoundingBoxSize), RMul(RInt(2), m_cellSize))

CellVolume == RMul(m_cellSize, RMul(m_cellSize, m_cellSize))

\* density that the iteration of cell c adds to particle p
RECURSIVE DensityFromRecords(_, _, _)
DensityFromRecords(list, mass, p) ==
  IF list = << >> THEN RZero
  ELSE LET r == Head(list)
           rest == DensityFromRecords(Tail(list), mass, p)
       IN  IF r.m_particle = p
           THEN RAdd(RDiv(RMul(Rat(r.m_cubicBSpline, WeightDenominator), mass),
                          CellVolume), rest)
           ELSE rest

\* density added to particle p by the iterations of cells lo..hi, the ones in
\* `lost` left out; the range is halved to keep the evaluation shallow
RECURSIVE DensityFromCells(_, _, _, _)
DensityFromCells(lo, hi, p, lost) ==
  IF lo > hi THEN RZero
  ELSE IF lo = hi
  THEN IF lo \in lost THEN RZero
       ELSE DensityFromRecords(m_cellCentres[lo].m_interpolationData,
                               m_cellCentres[lo].m_mass, p)
  ELSE LET mid == (lo + hi) \div 2
       IN  RAdd(DensityFromCells(lo, mid, p, lost),
                DensityFromCells(mid + 1, hi, p, lost))

\* The cell loop runs in parallel and addParticleDensity is an unsynchronised
\* read-modify-write of the particle, so an addition may be overwritten by a
\* concurrent one.  Explored here: no addition is lost, or those of the first
\* cell that holds records are.
LostUpdateChoices ==
  LET holding == { c \in CellIndices :
                     Len(m_cellCentres[c].m_interpolationData) > 1 }
  IN  { {} } \cup
      { { c } : c \in { h \in holding : \A o \in holding : h <= o } }

WithInitialVolume_DensityOverMass(particle, density) ==
  [ particle EXCEPT !.m_initialDensity = density,
                    !.m_initialVolume = RDiv(density, RInt(particle.m_mass)) ]

\* variant: the volume initialisation also rescales the particle mass
WithInitialVolume_MassRescaled(particle, density) ==
  [ particle EXCEPT !.m_initialDensity = density,
                    !.m_initialVolume = RDiv(RInt(particle.m_mass), density),
                    !.m_mass = 2 * particle.m_mass ]

WithInitialVolume(particle, density) ==
  [ particle EXCEPT !.m_initialDensity = density,
                    !.m_initialVolume = RDiv(RInt(particle.m_mass), density) ]

calcInitialParticleVolumes ==
  /\ Advance("calcInitialParticleVolumes")
  /\ \E lost \in LostUpdateChoices :
       /\ lostDensityUpdates' = lost
       /\ m_particles' =
            [ p \in Particles |->
                WithInitialVolume(m_particles[p],
                  RAdd(m_particles[p].m_initialDensity,
                       DensityFromCells(0, m_totNoCells - 1, p, lost))) ]
  /\ UNCHANGED gridVars

(* ------------------------- Grid::calcTemperature ----------------------- *)

\* variant: the heat step does not store the current temperature
calcTemperature_NothingStored ==
  /\ Advance("calcTemperature")
  /\ UNCHANGED << gridVars, m_particles >>

calcTemperature ==
  /\ Advance("calcTemperature")
  /\ m_cellCentres' =
       [ c \in CellIndices |->
           [ m_cellCentres[c] EXCEPT !.m_previousTemperature =
               m_cellCentres[c].m_temperature ] ]
  /\ UNCHANGED << m_cellFacesX, m_cellFacesY, m_cellFacesZ,
                  m_Amatrix_deviatoric, m_Bvector_deviatoric, m_particles >>

(* ---------------- phases whose code is given by the design ------------- *)

\* gravity, set by the constructor
m_externalForce == << RZero, Rat(-981, 100), RZero >>

\* explicit variant: v*_f = v_f + dt (F_dev / m_f + g.e) on the faces that
\* carry mass; the force itself is abstracted to DeviatoricForceValue
FaceAfterDeviatoricForce(f, force, axis) ==
  IF f.m_mass = RZero THEN f
  ELSE [ f EXCEPT
           !.m_deviatoricForce = RInt(force),
           !.m_velocity =
              RAdd(@, RMul(RInt(m_dt),
                           RAdd(RDiv(RInt(force), f.m_mass),
                                m_externalForce[axis]))) ]

calcDeviatoricVelocity ==
  /\ Advance("calcDeviatoricVelocity")
  /\ m_cellFacesX' =
       [ c \in CellIndices |->
           FaceAfterDeviatoricForce(m_cellFacesX[c], DeviatoricForceValue, 1) ]
  /\ m_cellFacesY' =
       [ c \in CellIndices |->
           FaceAfterDeviatoricForce(m_cellFacesY[c], DeviatoricForceValue, 2) ]
  /\ m_cellFacesZ' =
       [ c \in CellIndices |->
           FaceAfterDeviatoricForce(m_cellFacesZ[c], DeviatoricForceValue, 3) ]
  /\ UNCHANGED << m_cellCentres, m_Amatrix_deviatoric, m_Bvector_deviatoric,
                  m_particles >>

\* stick: Colliding faces have their normal velocity set to 0
FaceAfterBoundaryVelocity(f) ==
  IF f.m_state = "Colliding" THEN [ f EXCEPT !.m_velocity = RZero ] ELSE f

setBoundaryVelocity ==
  /\ Advance("setBoundaryVelocity")
  /\ m_cellFacesX' = [ c \in CellIndices |-> FaceAfterBoundaryVelocity(m_cellFacesX[c]) ]
  /\ m_cellFacesY' = [ c \in CellIndices |-> FaceAfterBoundaryVelocity(m_cellFacesY[c]) ]
  /\ m_cellFacesZ' = [ c \in CellIndices |-> FaceAfterBoundaryVelocity(m_cellFacesZ[c]) ]
  /\ UNCHANGED << m_cellCentres, m_Amatrix_deviatoric, m_Bvector_deviatoric,
                  m_particles >>

\* the pressure is no field of the cell records; its correction of the face
\* velocities is not represented
projectVelocity ==
  /\ Advance("projectVelocity")
  /\ UNCHANGED << gridVars, m_particles >>

\* the PIC/FLIP blend is not represented: particles keep velocity and
\* temperature
updateParticleFromGrid ==
  /\ Advance("updateParticleFromGrid")
  /\ UNCHANGED << gridVars, m_particles >>

\* the temperature contribution gathered from the grid is added to the particle
addParticleTemperature(particle, temperatureContribution) ==
  [ particle EXCEPT !.m_temperature = @ + temperatureContribution ]

\* heat per degree of the particle: heat capacity of its phase times its mass
HeatPerDegree(particle) ==
  particle.m_mass * (IF particle.m_phase = "Solid" THEN HeatCapacitySolid
                                                   ELSE HeatCapacityFluid)

\* variant: the transition heat is not limited to 0 .. LatentHeat
applyPhaseTransition_Unlimited(particle) ==
  LET T == particle.m_temperature
      U == particle.m_transitionHeat
      heat == HeatPerDegree(particle) * (T - FreezingTemperature)
  IN  IF (particle.m_phase = "Solid" /\ T >= FreezingTemperature)
         \/ (T < FreezingTemperature /\ U > 0)
      THEN [ particle EXCEPT
               !.m_transitionHeat = U + heat,
               !.m_temperature = FreezingTemperature,
               !.m_phase = IF U + heat >= LatentHeat THEN "Liquid" ELSE "Solid" ]
      ELSE particle

\* Phase transition.  A solid at or above the freezing temperature puts the
\* heat above it into the transition heat until that reaches the latent heat
\* and then turns Liquid; a liquid below the freezing temperature drains the
\* transition heat and is flagged Solid as soon as the transition heat is
\* below the latent heat; while the heat is routed the temperature is the
\* freezing temperature.
applyPhaseTransition(particle) ==
  LET T == particle.m_temperature
      U == particle.m_transitionHeat
      heat == HeatPerDegree(particle) * (T - FreezingTemperature)
      filled == IF U + heat > LatentHeat THEN LatentHeat ELSE U + heat
      drained == IF U + heat < 0 THEN 0 ELSE U + heat
  IN  IF particle.m_phase = "Solid" /\ T >= FreezingTemperature
      THEN [ particle EXCEPT
               !.m_transitionHeat = filled,
               !.m_temperature = FreezingTemperature,
               !.m_phase = IF filled = LatentHeat THEN "Liquid" ELSE "Solid" ]
      ELSE IF T < FreezingTemperature /\ U > 0
      THEN [ particle EXCEPT
               !.m_transitionHeat = drained,
               !.m_temperature = FreezingTemperature,
               !.m_phase = "Solid" ]
      ELSE particle

\* Particle::update as far as positions go: stick at the walls of the
\* bounding box [2, 2(n-1)], then advect by one step of the velocity
MovedAlongAxis(x, v) ==
  IF x + v < 2 \/ x + v > 2 * (m_noCells - 1) THEN << x, 0 >> ELSE << x + v, v >>

MovedParticle(particle) ==
  LET mx == MovedAlongAxis(particle.m_position[1], particle.m_velocity[1])
      my == MovedAlongAxis(particle.m_position[2], particle.m_velocity[2])
      mz == MovedAlongAxis(particle.m_position[3], particle.m_velocity[3])
  IN  [ particle EXCEPT !.m_position = << mx[1], my[1], mz[1] >>,
                        !.m_velocity = << mx[2], my[2], mz[2] >> ]

\* Grid::update has returned: the controller updates the particles
updateParticles ==
  /\ pc = "return"
  /\ pc' = "idle"
  /\ stepCount' = stepCount + 1
  /\ m_particles' =
       [ p \in Particles |-> MovedParticle(applyPhaseTransition(m_particles[p])) ]
  /\ UNCHANGED << stepTrace, isFirstStep, m_noCells, m_dt, m_ambientTemperature,
                  m_heatSourceTemperature, gridVars, lostDensityUpdates,
                  o_listParticleNo, noAllocatedRecords, singletonVars >>

(* --------------------- heat exchange of the particles ------------------ *)

\* temperature contributions a step may hand to the particles
TemperatureContributions == { -TemperatureStep, TemperatureStep }

\* One step as far as the particle temperatures go: every particle receives
\* the temperature contribution of the step and Particle::update runs the
\* phase transition on it.
heatParticles(temperatureContribution) ==
  /\ pc = "idle"
  /\ \A p \in Particles :
        m_particles[p].m_temperature + temperatureContribution
          \in (FreezingTemperature - TemperatureRange)
                .. (FreezingTemperature + TemperatureRange)
  /\ m_particles' =
       [ p \in Particles |->
           applyPhaseTransition(
             addParticleTemperature(m_particles[p], temperatureContribution)) ]
  /\ UNCHANGED << pc, stepTrace, stepCount, isFirstStep, m_noCells, m_dt,
                  m_ambientTemperature, m_heatSourceTemperature, gridVars,
                  lostDensityUpdates, o_listParticleNo, noAllocatedRecords,
                  singletonVars >>

(* -------------------------------- Next --------------------------------- *)

(* ---------------------- Grid::findNoParticlesInCells ------------------- *)

\* the vector the caller passes in: one zero per cell
ZeroParticleCounts == [ c \in CellIndices |-> 0 ]

\* the loop over particles 1..p: the vector after them and whether
\* std::vector::at threw; the loop ends at the particle whose cell index is
\* not a position of the vector
RECURSIVE ParticleCountsUpTo(_)
ParticleCountsUpTo(p) ==
  IF p = 0 THEN [ list |-> ZeroParticleCounts, thrown |-> FALSE ]
  ELSE LET before == ParticleCountsUpTo(p - 1)
           particleIndex == getParticleGridCell(m_particles[p].m_position)
           cellIndex == getVectorIndex(particleIndex[1], particleIndex[2],
                                       particleIndex[3], m_noCells)
       IN  IF before.thrown THEN before
           ELSE IF cellIndex \in DOMAIN before.list
           THEN [ list |-> [ before.list EXCEPT ![cellIndex] = @ + 1 ],
                  thrown |-> FALSE ]
           ELSE [ list |-> before.list, thrown |-> TRUE ]

findNoParticlesInCells ==
  /\ pc = "idle"
  /\ LET counted == ParticleCountsUpTo(NoParticles)
     IN  /\ o_listParticleNo' = counted.list
         /\ pc' = IF counted.thrown THEN "std::out_of_range" ELSE "counted"
  /\ UNCHANGED << stepTrace, stepCount, isFirstStep, m_noCells, m_dt,
                  m_ambientTemperature, m_heatSourceTemperature, gridVars,
                  m_particles, lostDensityUpdates, noAllocatedRecords,
                  singletonVars >>

\* the caller has used the counts and drops the vector
releaseParticleCounts ==
  /\ pc = "counted"
  /\ pc' = "idle"
  /\ o_listParticleNo' = << >>
  /\ UNCHANGED << stepTrace, stepCount, isFirstStep, m_noCells, m_dt,
                  m_ambientTemperature, m_heatSourceTemperature, gridVars,
                  m_particles, lostDensityUpdates, noAllocatedRecords,
                  singletonVars >>

Next ==
  \/ setSurroundingTemperatures
  \/ update
  \/ clearCellData
  \/ findParticleContributionToCell
  \/ transferParticleData
  \/ classifyCells
  \/ calcInitialParticleVolumes
  \/ calcDeviatoricVelocity
  \/ setBoundaryVelocity
  \/ projectVelocity
  \/ calcTemperature
  \/ updateParticleFromGrid
  \/ updateParticles
  \/ findNoParticlesInCells
  \/ releaseParticleCounts

Spec == Init /\ [][Next]_vars

(* --------------------------- the Grid singleton ------------------------ *)

\* arguments the controller may pass to createGrid
OriginEdgeInputs == { originEdge, << 2, 2, 2 >> }

\* variant: every call constructs a grid
createGrid_AlwaysConstructs(edge, n) ==
  /\ pc = "idle"
  /\ m_instance' = noGridsConstructed + 1
  /\ liveGrids' = liveGrids \cup { noGridsConstructed + 1 }
  /\ noGridsConstructed' = noGridsConstructed + 1
  /\ m_noCells' = n
  /\ m_origin' = staggeredGridPosition(edge, n)
  /\ m_dt' = 0
  /\ m_ambientTemperature' = 0
  /\ m_heatSourceTemperature' = 0
  /\ m_cellCentres' = CellCentresOfGrid(n)
  /\ m_cellFacesX' = CellFacesOfGrid(n)
  /\ m_cellFacesY' = CellFacesOfGrid(n)
  /\ m_cellFacesZ' = CellFacesOfGrid(n)
  /\ m_Amatrix_deviatoric' = ZeroSystem
  /\ m_Bvector_deviatoric' = ZeroSystem
  /\ lastCall' = [ name |-> "createGrid", result |-> m_instance',
                   thrown |-> "none", originEdge |-> edge, noCells |-> n ]
  /\ UNCHANGED << pc, stepTrace, stepCount, isFirstStep, m_particles,
                  lostDensityUpdates, o_listParticleNo, noAllocatedRecords >>

\* Grid::createGrid: the constructor runs only while m_instance is nullptr
createGrid(edge, n) ==
  /\ pc = "idle"
  /\ IF m_instance = nullptr
     THEN /\ m_instance' = noGridsConstructed + 1
          /\ liveGrids' = liveGrids \cup { noGridsConstructed + 1 }
          /\ noGridsConstructed' = noGridsConstructed + 1
          /\ m_noCells' = n
          /\ m_origin' = staggeredGridPosition(edge, n)
          /\ m_dt' = 0
          /\ m_ambientTemperature' = 0
          /\ m_heatSourceTemperature' = 0
          /\ m_cellCentres' = CellCentresOfGrid(n)
          /\ m_cellFacesX' = CellFacesOfGrid(n)
          /\ m_cellFacesY' = CellFacesOfGrid(n)
          /\ m_cellFacesZ' = CellFacesOfGrid(n)
          /\ m_Amatrix_deviatoric' = ZeroSystem
          /\ m_Bvector_deviatoric' = ZeroSystem
     ELSE UNCHANGED << m_instance, liveGrids, noGridsConstructed, m_noCells,
                       m_origin, m_dt, m_ambientTemperature,
                       m_heatSourceTemperature, gridVars >>
  /\ lastCall' = [ name |-> "createGrid", result |-> m_instance',
                   thrown |-> "none", originEdge |-> edge, noCells |-> n ]
  /\ UNCHANGED << pc, stepTrace, stepCount, isFirstStep, m_particles,
                  lostDensityUpdates, o_listParticleNo, noAllocatedRecords >>

\* variant: a missing instance is constructed with default arguments
getGrid_ConstructsDefault ==
  /\ pc = "idle"
  /\ IF m_instance = nullptr
     THEN /\ m_instance' = noGridsConstructed + 1
          /\ liveGrids' = liveGrids \cup { noGridsConstructed + 1 }
          /\ noGridsConstructed' = noGridsConstructed + 1
          /\ m_noCells' = 3
          /\ m_origin' = staggeredGridPosition(originEdge, 3)
          /\ m_cellCentres' = CellCentresOfGrid(3)
          /\ m_cellFacesX' = CellFacesOfGrid(3)
          /\ m_cellFacesY' = CellFacesOfGrid(3)
          /\ m_cellFacesZ' = CellFacesOfGrid(3)
     ELSE UNCHANGED << m_instance, liveGrids, noGridsConstructed, m_noCells,
                       m_origin, m_cellCentres, m_cellFacesX, m_cellFacesY,
                       m_cellFacesZ >>
  /\ lastCall' = [ name |-> "getGrid", result |-> m_instance',
                   thrown |-> "none", originEdge |-> << 0, 0, 0 >>,
                   noCells |-> 0 ]
  /\ UNCHANGED << pc, stepTrace, stepCount, isFirstStep, m_dt,
                  m_ambientTemperature, m_heatSourceTemperature,
                  m_Amatrix_deviatoric, m_Bvector_deviatoric, m_particles,
                  lostDensityUpdates, o_listParticleNo, noAllocatedRecords >>

\* Grid::getGrid: throws while m_instance is nullptr
getGrid ==
  /\ pc = "idle"
  /\ lastCall' =
       IF m_instance = nullptr
       THEN [ name |-> "getGrid", result |-> nullptr,
              thrown |-> "std::invalid_argument",
              originEdge |-> << 0, 0, 0 >>, noCells |-> 0 ]
       ELSE [ name |-> "getGrid", result |-> m_instance, thrown |-> "none",
              originEdge |-> << 0, 0, 0 >>, noCells |-> 0 ]
  /\ UNCHANGED << pc, stepTrace, stepCount, isFirstStep, m_noCells, m_dt,
                  m_ambientTemperature, m_heatSourceTemperature, gridVars,
                  m_particles, lostDensityUpdates, o_listParticleNo,
                  noAllocatedRecords, m_instance, liveGrids,
                  noGridsConstructed, m_origin >>

\* the controller deletes its grid: Grid::~Grid deletes the cells and faces and
\* clears the four lists; m_instance is not written
deleteGrid ==
  /\ pc = "idle"
  /\ m_instance \in liveGrids
  /\ liveGrids' = liveGrids \ { m_instance }
  /\ m_cellCentres' = << >>
  /\ m_cellFacesX' = << >>
  /\ m_cellFacesY' = << >>
  /\ m_cellFacesZ' = << >>
  /\ lastCall' = [ name |-> "~Grid", result |-> nullptr, thrown |-> "none",
                   originEdge |-> << 0, 0, 0 >>, noCells |-> 0 ]
  /\ UNCHANGED << pc, stepTrace, stepCount, isFirstStep, m_noCells, m_dt,
                  m_ambientTemperature, m_heatSourceTemperature,
                  m_Amatrix_deviatoric, m_Bvector_deviatoric, m_particles,
                  lostDensityUpdates, o_listParticleNo, noAllocatedRecords,
                  m_instance, noGridsConstructed, m_origin >>

\* the process before any grid exists: m_instance is nullptr, the particles
\* are those of the emitter
SingletonInit ==
  /\ pc = "idle"
  /\ stepTrace = << >>
  /\ stepCount = 0
  /\ isFirstStep = FALSE
  /\ m_noCells = 0
  /\ m_dt = 0
  /\ m_ambientTemperature = 0
  /\ m_heatSourceTemperature = 0
  /\ m_cellCentres = << >>
  /\ m_cellFacesX = << >>
  /\ m_cellFacesY = << >>
  /\ m_cellFacesZ = << >>
  /\ m_Amatrix_deviatoric = ZeroSystem
  /\ m_Bvector_deviatoric = ZeroSystem
  /\ lostDensityUpdates = {}
  /\ o_listParticleNo = << >>
  /\ noAllocatedRecords = 0
  /\ m_instance = nullptr
  /\ liveGrids = {}
  /\ noGridsConstructed = 0
  /\ lastCall = [ name |-> "none", result |-> nullptr, thrown |-> "none",
                  originEdge |-> << 0, 0, 0 >>, noCells |-> 0 ]
  /\ m_origin = << >>
  /\ \E pos \in InitPositions :
       m_particles =
         [ p \in Particles |->
             NewParticle(pos, VelocityA, MassA, TemperatureA, "Solid") ]

\* the grid is used through the pointer only while it is alive
useGrid == m_instance \in liveGrids /\ Next

SingletonNext ==
  \/ \E edge \in OriginEdgeInputs, n \in 3 .. MaxNoCells : createGrid(edge, n)
  \/ getGrid
  \/ deleteGrid
  \/ useGrid

SingletonSpec == SingletonInit /\ [][SingletonNext]_vars

\* the particles of a grid of 3 cells per side under heating and cooling
PhaseInit == Init /\ m_noCells = 3

PhaseNext == \E dT \in TemperatureContributions : heatParticles(dT)

PhaseSpec == PhaseInit /\ [][PhaseNext]_vars


\* ---------------------------------------------------------------------------
\* Properties
\* ---------------------------------------------------------------------------

\* the phase that ran last in the current call of Grid::update
JustAfter(phase) ==
  Len(stepTrace) > 0 /\ stepTrace[Len(stepTrace)] = phase

GridPhases ==
  << "clearCellData", "findParticleContributionToCell", "transferParticleData",
     "classifyCells", "calcDeviatoricVelocity", "setBoundaryVelocity",
     "projectVelocity", "calcTemperature", "updateParticleFromGrid" >>

IsGridPhase(name) == name # "calcInitialParticleVolumes"

\* positions of a phase in the trace of the current call
PositionsOf(phase) == { x \in DOMAIN stepTrace : stepTrace[x] = phase }

\* C1: in every call of Grid::update the phases clear, accumulate, transfer,
\* classify, deviatoric, boundary, projection, heat, gather run in this order,
\* each exactly once: at any moment the phases run so far are a prefix of the
\* sequence, at the return of the call they are the whole sequence, and a call
\* that is not the first step runs nothing else.
C1_PhasesInOrder ==
  LET ran == SelectSeq(stepTrace, IsGridPhase)
  IN  /\ Len(ran) <= Len(GridPhases)
      /\ ran = SubSeq(GridPhases, 1, Len(ran))
      /\ pc = "return" => ran = GridPhases
      /\ (pc = "return" /\ ~isFirstStep) => stepTrace = GridPhases

\* a call that is not the first step has returned
C1_Witness ==
  pc = "return" /\ ~isFirstStep /\ Len(stepTrace) = Len(GridPhases)

\* C2 as the claim states it: on the first step the initial particle volumes
\* are computed after transferParticleData and before classifyCells.
C2_VolumesBeforeClassify ==
  \A x \in PositionsOf("calcInitialParticleVolumes") :
     /\ \E y \in PositionsOf("transferParticleData") : y < x
     /\ \A y \in PositionsOf("classifyCells") : x < y

\* C2 amended: on the first step the initial particle volumes are computed
\* exactly once, right after classifyCells and right before
\* calcDeviatoricVelocity; the transfer has run before.
C2_VolumesAfterClassify ==
  /\ \A x \in PositionsOf("calcInitialParticleVolumes") :
        /\ isFirstStep
        /\ x > 1 /\ stepTrace[x - 1] = "classifyCells"
        /\ \E y \in PositionsOf("transferParticleData") : y < x
        /\ x < Len(stepTrace) => stepTrace[x + 1] = "calcDeviatoricVelocity"
  /\ (isFirstStep /\ PositionsOf("calcDeviatoricVelocity") # {})
        => Cardinality(PositionsOf("calcInitialParticleVolumes")) = 1

\* the first step has initialised the volumes and gone on
C2_Witness ==
  /\ isFirstStep
  /\ JustAfter("calcDeviatoricVelocity")
  /\ \E p \in Particles : m_particles[p].m_initialVolume # RZero

\* C3: while a call of Grid::update with isFirstStep false is running, no step
\* changes the initial density or the initial volume of any particle.
C3_VolumesFrozen ==
  [][ (pc # "idle" /\ ~isFirstStep) =>
        \A p \in Particles :
           /\ m_particles'[p].m_initialDensity = m_particles[p].m_initialDensity
           /\ m_particles'[p].m_initialVolume = m_particles[p].m_initialVolume
    ]_vars

\* a later step has run to its end with the volumes of the first step
C3_Witness ==
  /\ pc = "return" /\ ~isFirstStep
  /\ \E p \in Particles : m_particles[p].m_initialDensity # RZero

\* cell (i,j,k) lies on the outer layer of a grid of n cells per axis
OnOuterLayer(cell, n) ==
  \E x \in { cell.m_iIndex, cell.m_jIndex, cell.m_kIndex } : x = 0 \/ x = n - 1

\* number of records of the face that the cell with indices (i,j,k) stores,
\* 0 when there is no such cell
NoRecordsOfFaceAt(faces, i, j, k) ==
  LET at == { c \in CellIndices : /\ faces[c].m_iIndex = i
                                  /\ faces[c].m_jIndex = j
                                  /\ faces[c].m_kIndex = k }
  IN  IF at = {} THEN 0
      ELSE Len(faces[CHOOSE c \in at : TRUE].m_interpolationData)

\* C4: after classifyCells on a grid of at least 4 cells per axis, a cell
\* centre is Colliding exactly when one of its indices is 0 or noCells-1, and
\* every cell with all indices in 1..noCells-2 is Interior or Empty.
C4_CollidingIffOuter ==
  (JustAfter("classifyCells") /\ m_noCells >= 4) =>
     \A c \in CellIndices :
        LET cell == m_cellCentres[c]
        IN  /\ cell.m_state = "Colliding" <=> OnOuterLayer(cell, m_noCells)
            /\ ~OnOuterLayer(cell, m_noCells)
                  => cell.m_state \in { "Interior", "Empty" }

\* all three states occur among the cell centres, and an outer cell holds
\* records
C4_Witness ==
  /\ JustAfter("classifyCells") /\ m_noCells >= 4
  /\ \E c \in CellIndices : m_cellCentres[c].m_state = "Interior"
  /\ \E c \in CellIndices : m_cellCentres[c].m_state = "Empty"
  /\ \E c \in CellIndices :
        /\ m_cellCentres[c].m_state = "Colliding"
        /\ Len(m_cellCentres[c].m_interpolationData) > m_noParticlesThreshold

C6_FaceCollidingIffOuterOrFirst ==
  JustAfter("classifyCells") =>
     \A c \in CellIndices :
        /\ m_cellFacesX[c].m_state = "Colliding"
             <=> (OnOuterLayer(m_cellFacesX[c], m_noCells)
                    \/ m_cellFacesX[c].m_iIndex = 1)
        /\ m_cellFacesY[c].m_state = "Colliding"
             <=> (OnOuterLayer(m_cellFacesY[c], m_noCells)
                    \/ m_cellFacesY[c].m_jIndex = 1)
        /\ m_cellFacesZ[c].m_state = "Colliding"
             <=> (OnOuterLayer(m_cellFacesZ[c], m_noCells)
                    \/ m_cellFacesZ[c].m_kIndex = 1)

\* faces of inner cells in each state
C6_Witness ==
  /\ JustAfter("classifyCells")
  /\ \E c \in CellIndices : m_cellFacesX[c].m_state = "Empty"
  /\ \E c \in CellIndices : m_cellFacesY[c].m_state = "Interior"
  /\ \E c \in CellIndices : m_cellFacesZ[c].m_state = "Interior"
  /\ \E c \in CellIndices : /\ m_cellFacesX[c].m_state = "Colliding"
                            /\ ~OnOuterLayer(m_cellFacesX[c], m_noCells)

C8_CollidingHoldAmbient ==
  JustAfter("classifyCells") =>
     \A c \in CellIndices :
        (m_cellCentres[c].m_state = "Colliding" /\ m_cellCentres[c].m_jIndex # 0)
           => m_cellCentres[c].m_temperature = RInt(m_ambientTemperature)

\* C8 amended: after classifyCells a Colliding cell centre off the plane j = 0
\* holds the ambient temperature when its list of records is empty, and
\* otherwise keeps the mass-weighted mean temperature of its particles that
\* transferParticleData gave it.
C8_CollidingWithoutRecordsHoldAmbient ==
  JustAfter("classifyCells") =>
     \A c \in CellIndices :
        LET cell == m_cellCentres[c]
            list == cell.m_interpolationData
        IN  (cell.m_state = "Colliding" /\ cell.m_jIndex # 0) =>
               IF Len(list) = 0
               THEN cell.m_temperature = RInt(m_ambientTemperature)
               ELSE cell.m_temperature =
                      RDiv(WeightedSum(list, "temperature"),
                           WeightedSum(list, "one"))

\* off the heat source, a Colliding cell without records and one with records
\* whose temperature is not the ambient one
C8_Witness ==
  /\ JustAfter("classifyCells")
  /\ \E c \in CellIndices : /\ m_cellCentres[c].m_state = "Colliding"
                            /\ m_cellCentres[c].m_jIndex # 0
                            /\ Len(m_cellCentres[c].m_interpolationData) = 0
  /\ \E c \in CellIndices :
        /\ m_cellCentres[c].m_state = "Colliding"
        /\ m_cellCentres[c].m_jIndex # 0
        /\ Len(m_cellCentres[c].m_interpolationData) > 0
        /\ m_cellCentres[c].m_temperature # RInt(m_ambientTemperature)

\* C9: after clearCellData, whatever the grid held before, every list is
\* empty; every cell centre has contributor count 0, zero mass, determinants,
\* heat capacity, temperature and inverse lambda, and state Colliding; every
\* face has contributor count 0, zero mass, velocity, heat conductivity and
\* deviatoric force, and state Interior; the matrices and right-hand sides
\* are zero.
C9_ClearResets ==
  JustAfter("clearCellData") =>
     /\ \A c \in CellIndices :
           LET cell == m_cellCentres[c]
           IN  /\ cell.m_interpolationData = << >>
               /\ cell.m_noParticlesContributing = 0
               /\ cell.m_mass = RZero
               /\ cell.m_detDeformationGrad = RZero
               /\ cell.m_detDeformationGradElastic = RZero
               /\ cell.m_detDeformationGradPlastic = RZero
               /\ cell.m_heatCapacity = RZero
               /\ cell.m_temperature = RZero
               /\ cell.m_lameLambdaInverse = RZero
               /\ cell.m_state = "Colliding"
     /\ \A faces \in { m_cellFacesX, m_cellFacesY, m_cellFacesZ } :
           \A c \in CellIndices :
              /\ faces[c].m_interpolationData = << >>
              /\ faces[c].m_noParticlesContributing = 0
              /\ faces[c].m_mass = RZero
              /\ faces[c].m_velocity = RZero
              /\ faces[c].m_heatConductivity = RZero
              /\ faces[c].m_deviatoricForce = RZero
              /\ faces[c].m_state = "Interior"
     /\ \A axis \in { "X", "Y", "Z" } :
           /\ m_Amatrix_deviatoric[axis] = {}
           /\ m_Bvector_deviatoric[axis] = {}

\* the grid is cleared at the start of a later step, after a step that left
\* temperatures behind
C9_Witness ==
  /\ JustAfter("clearCellData")
  /\ stepCount > 0
  /\ \E c \in CellIndices : m_cellCentres[c].m_previousTemperature # RZero

\* C10 as the claim states it: after clearCellData the previous temperature of
\* every cell centre is zero.
C10_PreviousTemperatureCleared ==
  JustAfter("clearCellData") =>
     \A c \in CellIndices : m_cellCentres[c].m_previousTemperature = RZero

\* the list of the given kind that cell c stores
ListOfKind(kind, c) ==
  CASE kind = "Centre" -> m_cellCentres[c].m_interpolationData
    [] kind = "FaceX" -> m_cellFacesX[c].m_interpolationData
    [] kind = "FaceY" -> m_cellFacesY[c].m_interpolationData
    [] kind = "FaceZ" -> m_cellFacesZ[c].m_interpolationData

\* positions in a list of the records of particle p
RecordsOf(list, p) == { r \in DOMAIN list : list[r].m_particle = p }

\* the cell lies within i_p-2 .. i_p+3 of the particle's cell on every axis
InNeighbourhood(cell, p) ==
  LET particleIndex == getParticleGridCell(m_particles[p].m_position)
  IN  /\ cell.m_iIndex \in (particleIndex[1] - 2) .. (particleIndex[1] + 3)
      /\ cell.m_jIndex \in (particleIndex[2] - 2) .. (particleIndex[2] + 3)
      /\ cell.m_kIndex \in (particleIndex[3] - 2) .. (particleIndex[3] + 3)

InsideGrid(cell) ==
  /\ cell.m_iIndex \in 0 .. (m_noCells - 1)
  /\ cell.m_jIndex \in 0 .. (m_noCells - 1)
  /\ cell.m_kIndex \in 0 .. (m_noCells - 1)

\* product of the three per-axis cubic B-spline values of particle p at the
\* position of the list of the given kind of the cell
WeightProduct(kind, cell, p) ==
  LET pos == m_particles[p].m_position
      o == ListOffset(kind)
  IN  calcCubicBSpline(pos[1] - (2 * cell.m_iIndex + o[1]))
      * calcCubicBSpline(pos[2] - (2 * cell.m_jIndex + o[2]))
      * calcCubicBSpline(pos[3] - (2 * cell.m_kIndex + o[3]))

RECURSIVE RecordSum(_, _)
RecordSum(list, value) ==
  IF list = << >> THEN RZero
  ELSE LET p == Head(list).m_particle
       IN  RAdd(Rat(Head(list).m_cubicBSpline * m_particles[p].m_mass * value[p],
                    WeightDenominator),
                RecordSum(Tail(list), value))

One == [ p \in Particles |-> 1 ]
VelocityAlong(axis) == [ p \in Particles |-> m_particles[p].m_velocity[axis] ]
ConductivityByPhase ==
  [ p \in Particles |-> IF m_particles[p].m_phase = "Solid"
                        THEN HeatConductivitySolid ELSE HeatConductivityFluid ]

\* the faces of the three axes, with the index of the axis
FacesOfAxis(axis) ==
  CASE axis = 1 -> m_cellFacesX
    [] axis = 2 -> m_cellFacesY
    [] axis = 3 -> m_cellFacesZ

\* C12: after transferParticleData every face with records has mass
\* sum(N_p*m_p), velocity sum(N_p*m_p*v_p)/mass with v_p the particle velocity
\* component along the face normal, and heat conductivity
\* sum(N_p*m_p*kappa_p)/mass with kappa_p chosen by the particle's phase;
\* every face without records has mass, velocity and conductivity 0.
C12_FaceAggregates ==
  JustAfter("transferParticleData") =>
     \A axis \in 1 .. 3, c \in CellIndices :
        LET f == FacesOfAxis(axis)[c]
            list == f.m_interpolationData
        IN  IF Len(list) > 0
            THEN /\ f.m_mass = RecordSum(list, One)
                 /\ f.m_velocity =
                      RDiv(RecordSum(list, VelocityAlong(axis)), f.m_mass)
                 /\ f.m_heatConductivity =
                      RDiv(RecordSum(list, ConductivityByPhase), f.m_mass)
            ELSE /\ f.m_mass = RZero
                 /\ f.m_velocity = RZero
                 /\ f.m_heatConductivity = RZero

\* an X face holds records of a Solid and of a Liquid particle with different
\* velocities, and another face holds none
C12_Witness ==
  /\ JustAfter("transferParticleData")
  /\ \E c \in CellIndices :
        LET list == m_cellFacesX[c].m_interpolationData
        IN  \E r1 \in DOMAIN list, r2 \in DOMAIN list :
               /\ m_particles[list[r1].m_particle].m_phase = "Solid"
               /\ m_particles[list[r2].m_particle].m_phase = "Liquid"
               /\ m_particles[list[r1].m_particle].m_velocity
                    # m_particles[list[r2].m_particle].m_velocity
  /\ \E c \in CellIndices : Len(m_cellFacesY[c].m_interpolationData) = 0

DetDeformGradOf == [ p \in Particles |-> m_particles[p].m_detDeformGrad ]
DetDeformGradElasticOf ==
  [ p \in Particles |-> m_particles[p].m_detDeformGradElastic ]
TemperatureOf == [ p \in Particles |-> m_particles[p].m_temperature ]
LameLambdaInverseOf == [ p \in Particles |-> m_particles[p].m_lameLambdaInverse ]
HeatCapacityByPhase ==
  [ p \in Particles |-> IF m_particles[p].m_phase = "Solid"
                        THEN HeatCapacitySolid ELSE HeatCapacityFluid ]

\* C13: after transferParticleData every cell centre with records has mass
\* sum(N_p*m_p); det F, det F_E, temperature, inverse lambda and heat capacity
\* (by particle phase) equal to the N_p*m_p-weighted averages of the particle
\* values; and det F_P equal to det F / det F_E of these averages.  Every cell
\* centre without records has all these aggregates 0.
C13_CentreAggregates ==
  JustAfter("transferParticleData") =>
     \A c \in CellIndices :
        LET cell == m_cellCentres[c]
            list == cell.m_interpolationData
            Average(value) == RDiv(RecordSum(list, value), RecordSum(list, One))
        IN  IF Len(list) > 0
            THEN /\ cell.m_mass = RecordSum(list, One)
                 /\ cell.m_detDeformationGrad = Average(DetDeformGradOf)
                 /\ cell.m_detDeformationGradElastic
                      = Average(DetDeformGradElasticOf)
                 /\ cell.m_temperature = Average(TemperatureOf)
                 /\ cell.m_lameLambdaInverse = Average(LameLambdaInverseOf)
                 /\ cell.m_heatCapacity = Average(HeatCapacityByPhase)
                 /\ cell.m_detDeformationGradPlastic
                      = RDiv(Average(DetDeformGradOf),
                             Average(DetDeformGradElasticOf))
            ELSE /\ cell.m_mass = RZero
                 /\ cell.m_detDeformationGrad = RZero
                 /\ cell.m_detDeformationGradElastic = RZero
                 /\ cell.m_detDeformationGradPlastic = RZero
                 /\ cell.m_temperature = RZero
                 /\ cell.m_lameLambdaInverse = RZero
                 /\ cell.m_heatCapacity = RZero

\* a cell centre averages particles of both groups, whose values all differ,
\* and another cell centre holds no record
C13_Witness ==
  /\ JustAfter("transferParticleData")
  /\ \E c \in CellIndices :
        LET list == m_cellCentres[c].m_interpolationData
        IN  \E r1 \in DOMAIN list, r2 \in DOMAIN list :
               /\ m_particles[list[r1].m_particle].m_phase = "Solid"
               /\ m_particles[list[r2].m_particle].m_phase = "Liquid"
               /\ m_particles[list[r1].m_particle].m_detDeformGrad
                    # m_particles[list[r2].m_particle].m_detDeformGrad
  /\ \E c \in CellIndices : Len(m_cellCentres[c].m_interpolationData) = 0

\* sum of the cell-centre masses of cells lo..hi
RECURSIVE CellMassSum(_, _)
CellMassSum(lo, hi) ==
  IF lo > hi THEN RZero
  ELSE IF lo = hi THEN m_cellCentres[lo].m_mass
  ELSE LET mid == (lo + hi) \div 2
       IN  RAdd(CellMassSum(lo, mid), CellMassSum(mid + 1, hi))

RECURSIVE ParticleMassSum(_)
ParticleMassSum(p) ==
  IF p = 0 THEN 0 ELSE m_particles[p].m_mass + ParticleMassSum(p - 1)

\* the particle lies in the bounding box, the cells 1..noCells-2 of every axis
InsideBoundingBox(p) ==
  \A axis \in 1 .. 3 :
     /\ m_particles[p].m_position[axis] >= 2
     /\ m_particles[p].m_position[axis] <= 2 * (m_noCells - 1)

\* C14 as the claim states it, on a grid of at least 4 cells per axis: after
\* transferParticleData, with every particle inside the bounding box, the
\* cell-centre masses of all cells add up to the sum of the particle masses.
C14_MassConserved ==
  ( /\ JustAfter("transferParticleData")
    /\ m_noCells >= 4
    /\ \A p \in Particles : InsideBoundingBox(p) )
     => CellMassSum(0, m_totNoCells - 1) = RInt(ParticleMassSum(NoParticles))

\* every particle has the same velocity component along the axis
UniformVelocityAlong(axis) ==
  \A p \in Particles, q \in Particles :
     m_particles[p].m_velocity[axis] = m_particles[q].m_velocity[axis]

\* C15: if every particle has the same velocity component c along an axis,
\* then after transferParticleData every face of that axis that has records
\* has velocity exactly c.
C15_UniformVelocityPreserved ==
  JustAfter("transferParticleData") =>
     \A axis \in 1 .. 3 :
        UniformVelocityAlong(axis) =>
           \A c \in CellIndices :
              Len(FacesOfAxis(axis)[c].m_interpolationData) > 0
                 => FacesOfAxis(axis)[c].m_velocity
                      = RInt(m_particles[1].m_velocity[axis])

\* the particles share a non-zero x velocity, and an X face averages two of
\* them that differ in mass and position
C15_Witness ==
  /\ JustAfter("transferParticleData")
  /\ UniformVelocityAlong(1)
  /\ m_particles[1].m_velocity[1] # 0
  /\ \E c \in CellIndices :
        LET list == m_cellFacesX[c].m_interpolationData
        IN  \E r1 \in DOMAIN list, r2 \in DOMAIN list :
               /\ m_particles[list[r1].m_particle].m_mass
                    # m_particles[list[r2].m_particle].m_mass
               /\ m_particles[list[r1].m_particle].m_position
                    # m_particles[list[r2].m_particle].m_position
               /\ list[r1].m_cubicBSpline # list[r2].m_cubicBSpline

(* ---------------------- C16: initial particle volumes ------------------ *)

\* N_p * m_c / h^3 of the record of particle p in the list of cell centre c,
\* zero when the list holds no record of the particle
DensityTerm(c, p) ==
  LET list == m_cellCentres[c].m_interpolationData
      records == RecordsOf(list, p)
  IN  IF records = {} THEN RZero
      ELSE LET r == CHOOSE r \in records : TRUE
           IN  RDiv(RMul(Rat(list[r].m_cubicBSpline, WeightDenominator),
                         m_cellCentres[c].m_mass),
                    RMul(m_cellSize, RMul(m_cellSize, m_cellSize)))

RECURSIVE DensityTermSum(_, _, _)
DensityTermSum(lo, hi, p) ==
  IF lo > hi THEN RZero
  ELSE IF lo = hi THEN DensityTerm(lo, p)
  ELSE LET mid == (lo + hi) \div 2
       IN  RAdd(DensityTermSum(lo, mid, p), DensityTermSum(mid + 1, hi, p))

CentresHolding(p) ==
  { c \in CellIndices :
      RecordsOf(m_cellCentres[c].m_interpolationData, p) # {} }

\* C16: after the first-step volume initialisation in which no density
\* addition was overwritten (the cell loop executed sequentially), the density
\* of every particle is the sum over the cell centres holding a record of the
\* particle of N_p * m_c / h^3, and its initial volume is its mass divided by
\* that density.
C16_SequentialDensityAndVolume ==
  (JustAfter("calcInitialParticleVolumes") /\ lostDensityUpdates = {}) =>
     \A p \in Particles :
        /\ \A c \in CellIndices :
              Cardinality(RecordsOf(m_cellCentres[c].m_interpolationData, p)) <= 1
        /\ m_particles[p].m_initialDensity
              = DensityTermSum(0, m_totNoCells - 1, p)
        /\ m_particles[p].m_initialVolume
              = RDiv(RInt(m_particles[p].m_mass),
                     DensityTermSum(0, m_totNoCells - 1, p))

\* a sequential initialisation on a grid whose cell volume is not 1, in which
\* a particle gathers density from several cell centres and gets a finite
\* volume other than its mass
C16_Witness ==
  /\ JustAfter("calcInitialParticleVolumes")
  /\ lostDensityUpdates = {}
  /\ m_noCells # 4
  /\ \E p \in Particles :
        /\ Cardinality(CentresHolding(p)) >= 2
        /\ m_particles[p].m_initialDensity # RZero
        /\ m_particles[p].m_initialVolume # RInt(m_particles[p].m_mass)
        /\ m_particles[p].m_initialVolume[2] # 0

(* ------------------ C17: parallel density accumulation ----------------- *)

\* C17 as the claim states it: whatever the interleaving of the parallel cell
\* iterations of the first-step volume initialisation, the density of every
\* particle after the loop is the sequential sum of all cell contributions.
C17_NoDensityContributionLost ==
  JustAfter("calcInitialParticleVolumes") =>
     \A p \in Particles :
        m_particles[p].m_initialDensity = DensityTermSum(0, m_totNoCells - 1, p)

(* --------------------------- C18: heat step ---------------------------- *)

\* the two cells share a face
AreNeighbours(a, b) ==
  Abs(m_cellCentres[a].m_iIndex - m_cellCentres[b].m_iIndex)
    + Abs(m_cellCentres[a].m_jIndex - m_cellCentres[b].m_jIndex)
    + Abs(m_cellCentres[a].m_kIndex - m_cellCentres[b].m_kIndex) = 1

\* an Interior cell whose temperature differs from the temperature held by a
\* Colliding neighbour
InteriorOffBoundaryTemperature(c) ==
  /\ m_cellCentres[c].m_state = "Interior"
  /\ \E b \in CellIndices :
        /\ AreNeighbours(c, b)
        /\ m_cellCentres[b].m_state = "Colliding"
        /\ m_cellCentres[b].m_temperature # m_cellCentres[c].m_temperature

\* C18 as the claim states it, for one heat step: when an Interior cell is
\* not at the temperature of a Colliding neighbour, calcTemperature changes
\* the temperature of that cell (moves it towards its neighbours').
C18_HeatStepMovesInteriorTemperature ==
  [][ pc = "calcTemperature" =>
        \A c \in CellIndices :
           InteriorOffBoundaryTemperature(c) =>
              m_cellCentres'[c].m_temperature # m_cellCentres[c].m_temperature
    ]_vars

\* the state the heat step starts from in the case of C18
C18_HeatStepCase ==
  /\ pc = "calcTemperature"
  /\ \E c \in CellIndices : InteriorOffBoundaryTemperature(c)

(* ------------------- C19: no loop ends by an exception ----------------- *)

\* C19 as the claim states it: whatever the particle positions, no
\* per-particle loop of the grid, the counting loop of findNoParticlesInCells
\* included, is left through an exception.
C19_NoLoopAborts == pc # "std::out_of_range"

\* findNoParticlesInCells completes when every particle is in a cell of the
\* grid
C19_CountingCompleted ==
  /\ pc = "counted"
  /\ \E c \in CellIndices : o_listParticleNo[c] = NoParticles

(* ------------------------- C20: grid construction ---------------------- *)

\* the record carries indices within the grid whose flat position is p
IndexedAt(record, p) ==
  /\ record.m_iIndex \in 0 .. (m_noCells - 1)
  /\ record.m_jIndex \in 0 .. (m_noCells - 1)
  /\ record.m_kIndex \in 0 .. (m_noCells - 1)
  /\ p = record.m_iIndex + m_noCells * record.m_jIndex
           + m_noCells * m_noCells * record.m_kIndex

\* C20: the constructed grid has cell size h with h * (n-2) = B, grid size
\* B + 2h = n * h, origin o_bb - h/2 on every axis, and each of the cell-centre
\* and X, Y, Z face lists holds exactly n^3 records, the record at flat
\* position p carrying the indices (i,j,k) with p = i + n*j + n^2*k and
\* 0 <= i,j,k < n.  The grid keeps this shape in every later state.
C20_GridConstruction ==
  /\ RMul(m_cellSize, RInt(m_noCells - 2)) = RInt(BoundingBoxSize)
  /\ m_gridSize = RMul(RInt(m_noCells), m_cellSize)
  /\ \A axis \in 1 .. 3 :
        RAdd(m_origin[axis], RMul(Rat(1, 2), m_cellSize)) = RInt(originEdge[axis])
  /\ \A list \in { m_cellCentres, m_cellFacesX, m_cellFacesY, m_cellFacesZ } :
        /\ DOMAIN list = 0 .. (m_noCells * m_noCells * m_noCells - 1)
        /\ Cardinality(DOMAIN list) = m_noCells * m_noCells * m_noCells
        /\ \A p \in DOMAIN list : IndexedAt(list[p], p)

\* the grid right after construction, on more than 3 cells per side: no
\* temperatures set, no step made, and a record whose three indices differ
C20_Witness ==
  /\ pc = "idle" /\ stepCount = 0 /\ m_ambientTemperature = 0
  /\ m_noCells > 3
  /\ m_gridSize = RAdd(RInt(BoundingBoxSize), RAdd(m_cellSize, m_cellSize))
  /\ \E p \in DOMAIN m_cellFacesY :
        /\ m_cellFacesY[p].m_iIndex = 1
        /\ m_cellFacesY[p].m_jIndex = 2
        /\ m_cellFacesY[p].m_kIndex = 3
        /\ m_cellFacesY[p].m_interpolationData = << >>

(* ----------------------- C22: particle mass constant ------------------- *)

\* C22: no step of the grid changes the mass of a particle, so every particle
\* keeps the mass it was created with and the total particle mass is
\* conserved exactly.
C22_ParticleMassConstant ==
  [][ /\ \A p \in Particles : m_particles'[p].m_mass = m_particles[p].m_mass
      /\ ParticleMassSum(NoParticles)' = ParticleMassSum(NoParticles)
    ]_vars

\* a first step has run through all phases, the volume initialisation
\* included, on particles of both groups, and the masses are those of creation
C22_Witness ==
  /\ pc = "return" /\ isFirstStep
  /\ \E p \in Particles : m_particles[p].m_initialDensity # RZero
  /\ \E noA \in 1 .. (NoParticles - 1) :
        /\ \A p \in Particles :
              m_particles[p].m_mass = IF p <= noA THEN MassA ELSE MassB
        /\ ParticleMassSum(NoParticles)
              = noA * MassA + (NoParticles - noA) * MassB

(* ------------------- C27: previous temperature stored ------------------ *)

\* C27: the heat step of every update leaves in the previous temperature of
\* each cell centre the temperature the cell had when the heat step began, in
\* the first step as in the later ones.
C27_PreviousTemperatureStored ==
  [][ pc = "calcTemperature" =>
        \A c \in CellIndices :
           m_cellCentres'[c].m_previousTemperature
              = m_cellCentres[c].m_temperature
    ]_vars

\* right after the heat step of a step later than the first, with cells of
\* several temperatures whose previous temperature is the current one
C27_Witness ==
  /\ JustAfter("calcTemperature")
  /\ stepCount >= 1
  /\ \E c, d \in CellIndices :
        /\ m_cellCentres[c].m_previousTemperature = m_cellCentres[c].m_temperature
        /\ m_cellCentres[d].m_previousTemperature = m_cellCentres[d].m_temperature
        /\ m_cellCentres[c].m_temperature # RZero
        /\ m_cellCentres[d].m_temperature # RZero
        /\ m_cellCentres[c].m_temperature # m_cellCentres[d].m_temperature

(* ---------------------- C30: contributor counts ------------------------ *)

\* C30 as the claim states it: after findParticleContributionToCell the
\* contributor count of every cell centre and face is the number of records
\* in its interpolation list.
C30_CountEqualsRecords ==
  JustAfter("findParticleContributionToCell") =>
     \A c \in CellIndices :
        /\ m_cellCentres[c].m_noParticlesContributing
              = Len(m_cellCentres[c].m_interpolationData)
        /\ m_cellFacesX[c].m_noParticlesContributing
              = Len(m_cellFacesX[c].m_interpolationData)
        /\ m_cellFacesY[c].m_noParticlesContributing
              = Len(m_cellFacesY[c].m_interpolationData)
        /\ m_cellFacesZ[c].m_noParticlesContributing
              = Len(m_cellFacesZ[c].m_interpolationData)

(* ------------------ C26: faces without enough records ------------------ *)

\* C26 as the claim states it: after classifyCells a face that is not
\* Colliding and holds at most m_noParticlesThreshold records is Empty, and a
\* face is Interior only when it holds more records than the threshold.
C26_SparseFacesAreEmpty ==
  JustAfter("classifyCells") =>
     \A c \in CellIndices, axis \in 1 .. 3 :
        LET f == FacesOfAxis(axis)[c]
        IN  /\ (f.m_state # "Colliding"
                  /\ Len(f.m_interpolationData) <= m_noParticlesThreshold)
               => f.m_state = "Empty"
            /\ f.m_state = "Interior"
               => Len(f.m_interpolationData) > m_noParticlesThreshold

(* ---------------- C25: classification under any order ------------------ *)

\* the states of the four lists, cell by cell
StatesOf(centres, facesX, facesY, facesZ) ==
  [ c \in CellIndices |->
      << centres[c].m_state, facesX[c].m_state,
         facesY[c].m_state, facesZ[c].m_state >> ]

\* C25: whichever order the parallel iterations of classifyCells take, an
\* iteration reading a neighbour's face before or after the neighbour's
\* iteration rewrote it, the cell-centre and face states produced are the
\* same: those of the step taken equal those of every explored order.
C25_ClassificationOrderIndependent ==
  [][ pc = "classifyCells" =>
        \A order \in IterationOrders :
           \A g \in { ClassifiedInOrder(order) } :
              StatesOf(g.centres, g.facesX, g.facesY, g.facesZ)
                = StatesOf(m_cellCentres', m_cellFacesX', m_cellFacesY',
                           m_cellFacesZ')
    ]_vars

\* a cell whose lower X face is Colliding was classified through its upper X
\* face, which the neighbour's iteration turned from Interior to Empty
C25_Witness ==
  /\ JustAfter("classifyCells")
  /\ \E c \in CellIndices :
        LET cell == m_cellCentres[c]
            upper == getVectorIndex(cell.m_iIndex + 1, cell.m_jIndex,
                                    cell.m_kIndex, m_noCells)
        IN  /\ cell.m_iIndex < m_noCells - 1
            /\ m_cellFacesX[c].m_state = "Colliding"
            /\ m_cellFacesX[upper].m_state = "Empty"
            /\ cell.m_state # "Colliding"

(* ------------------ C24: interpolation records released ---------------- *)

\* C24 as the claim states it: at any time the InterpolationData objects
\* allocated and not deleted are exactly the records the cell lists refer to,
\* so the records of an earlier step are gone once clearCellData has run.
C24_AllocatedRecordsAreReferenced ==
  noAllocatedRecords
    = NoRecordsInRange(0, m_totNoCells - 1, m_cellCentres, m_cellFacesX,
                       m_cellFacesY, m_cellFacesZ)

(* ------------------------- C23: transition heat ------------------------ *)

\* C23: in every state a Liquid particle above the freezing temperature has
\* its transition heat at the latent heat, a Solid particle below the freezing
\* temperature has transition heat 0, and the transition heat of every
\* particle lies in 0 .. LatentHeat.
C23_TransitionHeatByPhase ==
  \A p \in Particles :
     LET particle == m_particles[p]
     IN  /\ particle.m_transitionHeat \in 0 .. LatentHeat
         /\ (particle.m_phase = "Liquid"
               /\ particle.m_temperature > FreezingTemperature)
            => particle.m_transitionHeat = LatentHeat
         /\ (particle.m_phase = "Solid"
               /\ particle.m_temperature < FreezingTemperature)
            => particle.m_transitionHeat = 0

\* a particle created Solid has melted and is above the freezing temperature
\* with its transition heat full, next to a particle created Liquid
C23_Witness ==
  /\ \E p \in Particles :
        /\ m_particles[p].m_mass = MassA
        /\ m_particles[p].m_phase = "Liquid"
        /\ m_particles[p].m_temperature > FreezingTemperature
        /\ m_particles[p].m_transitionHeat = LatentHeat
  /\ \E p \in Particles :
        /\ m_particles[p].m_mass = MassB
        /\ m_particles[p].m_phase = "Liquid"

\* the step is a call of the named function of the singleton
IsCallOf(name) == lastCall'.name = name /\ lastCall' # lastCall

\* C21: getGrid called while no grid has been created (m_instance is nullptr)
\* throws std::invalid_argument and creates nothing; called after createGrid it
\* returns the instance createGrid constructed and changes nothing
C21_GetGridNeverCreates ==
  [][ IsCallOf("getGrid") =>
        /\ UNCHANGED << m_instance, liveGrids, noGridsConstructed, m_noCells,
                        m_origin, gridVars >>
        /\ IF m_instance = nullptr
           THEN /\ lastCall'.thrown = "std::invalid_argument"
                /\ lastCall'.result = nullptr
                /\ noGridsConstructed = 0
           ELSE /\ lastCall'.thrown = "none"
                /\ lastCall'.result = m_instance
                /\ m_instance \in 1 .. noGridsConstructed ]_vars

\* getGrid has thrown while no grid had been created
C21_Witness ==
  /\ lastCall.name = "getGrid"
  /\ lastCall.thrown = "std::invalid_argument"
  /\ m_instance = nullptr
  /\ noGridsConstructed = 0

\* C28: createGrid called while an instance exists returns that instance and
\* leaves its origin, resolution, cell size and cell records as they are,
\* whatever the arguments; no second grid is constructed
C28_CreateGridKeepsExistingInstance ==
  [][ (IsCallOf("createGrid") /\ m_instance # nullptr) =>
        /\ lastCall'.result = m_instance
        /\ UNCHANGED << m_instance, liveGrids, noGridsConstructed, m_noCells,
                        m_origin, gridVars >>
        /\ noGridsConstructed' = 1 ]_vars

\* createGrid has been called with a resolution and an origin other than those
\* of the live grid it returned
C28_Witness ==
  /\ lastCall.name = "createGrid"
  /\ lastCall.result = m_instance
  /\ m_instance \in liveGrids
  /\ lastCall.noCells # m_noCells
  /\ staggeredGridPosition(lastCall.originEdge, lastCall.noCells) # m_origin
  /\ Cardinality(DOMAIN m_cellCentres) = m_noCells * m_noCells * m_noCells

\* C29: once the grid has been destroyed, no call of createGrid or getGrid
\* hands out the destroyed grid: a returned pointer refers to a live grid
C29_NoPointerToDestroyedGrid ==
  (lastCall.name \in { "createGrid", "getGrid" } /\ lastCall.result # nullptr)
    => lastCall.result \in liveGrids

====
